---- MODULE Spec2Model ----
(***************************************************************************)
(* Model of the two scripts of the repository:                             *)
(*   src/making_new_transaction.py      (BitcoinTransactionCreator and the *)
(*                                       create_and_send_transaction flow) *)
(*   src/getting_unspent_transactions.py (DigitalAssetPortfolioInspector)  *)
(*                                                                         *)
(* Representation of values.                                               *)
(*  - A BTC amount (a Decimal in the code) is the integer number of        *)
(*    1/SubSat satoshi it holds: the Decimal d is the integer              *)
(*    d * 10^8 * SubSat.  One satoshi is SubSat units, so amounts finer    *)
(*    than a satoshi are representable and int(Decimal(x) * 1e8) is a real *)
(*    conversion (ToSats), not the identity.                               *)
(*  - Satoshi counts (the code's int values) are plain integers; Python    *)
(*    ints do not overflow.                                                *)
(*  - An unspent output is a record [txid, vout, amount, confirmations]    *)
(*    (plus address in the inspector); None is the string "None".          *)
(***************************************************************************)
EXTENDS Integers, Sequences, FiniteSets, TLC

VARIABLES
    \* --- harness of select_inputs_for_amount
    target_amount_btc,   \* argument: the target amount, in units
    unspent_outputs,     \* argument: the list of unspent outputs
    selection,           \* NotCalled, then the returned triple
    \* --- harness of estimate_transaction_size / calculate_transaction_fee
    size_args,           \* [input_count, output_count, is_segwit, sat_per_byte]
    size_result,         \* NotCalled, then [estimated_size, fee_sats]
    \* --- harness of DigitalAssetPortfolioInspector.calculate_unspent_balance
    inspect_args,        \* [node_client, fault, target_address, unspent_transactions]
    report,              \* NotCalled, then the returned report or None
    \* --- harness of the RPC wrappers
    rpc_log,             \* one record per wrapper call: how it ended
    \* --- create_and_send_transaction
    pc,                  \* the step the flow is at
    exit_reason,         \* "" while running, then why the flow returned
    calls,               \* the node methods called so far, in order
    node_client,         \* tx_creator.node_client: "None" or "proxy"
    pricing,             \* NotCalled, then the size, fee and change computed
    outputs,             \* the outputs dict: address -> amount in units
    raw_tx,              \* "unset", then "hex" or "None"
    signed_tx,           \* "unset", then "complete", "incomplete" or "None"
    tx_hash              \* "unset", then "hash" or "None"

selectVars == <<target_amount_btc, unspent_outputs, selection>>
sizeVars == <<size_args, size_result>>
inspectVars == <<inspect_args, report>>
flowVars == <<pc, exit_reason, calls, node_client, pricing, outputs,
              raw_tx, signed_tx, tx_hash>>

vars == <<selectVars, sizeVars, inspectVars, rpc_log, flowVars>>

----------------------------------------------------------------------------
(* Bounds of the model *)

\* units per satoshi: amounts are multiples of 1/SubSat satoshi
SubSat == 4
\* longest list of unspent outputs handed to select_inputs_for_amount
MaxUtxo == 3
\* largest amount of one unspent output, in satoshi
MaxUtxoSats == 2
\* largest number of confirmations of an unspent output
MaxConf == 2
\* largest target amount, in satoshi
MaxTargetSats == 4
\* largest input count, output count and fee rate given to the estimator
MaxCount == 4
MaxRate == 3
\* longest list of outputs the node returns to the inspector
MaxListed == 3
\* number of wrapper calls recorded by the wrapper harness
MaxCalls == 2
\* longest list of wallet outputs in the transaction builder flow
MaxWallet == 2

None == "None"

\* the value of a harness's result before the call is made
NotCalled == [called |-> FALSE]

----------------------------------------------------------------------------
(* Decimal -> satoshi conversion *)

\* int(n / d) for d > 0: Python's int() truncates toward zero
TruncDiv(n, d) == IF n >= 0 THEN n \div d ELSE -((-n) \div d)

\* int(Decimal(x) * Decimal('1e8')): int() truncates the product toward zero
ToSats(units) == TruncDiv(units, SubSat)

\* Decimal(sats) / Decimal('1e8'): exact, a whole number of satoshi
FromSats(sats) == sats * SubSat

----------------------------------------------------------------------------
(* BitcoinTransactionCreator.select_inputs_for_amount *)

\* insert output o into a list already sorted by confirmations descending,
\* behind every element whose confirmations are >= o's (a stable sort)
RECURSIVE InsertByConfirmations(_, _)
InsertByConfirmations(o, s) ==
    IF s = <<>> THEN <<o>>
    ELSE IF Head(s).confirmations >= o.confirmations
         THEN <<Head(s)>> \o InsertByConfirmations(o, Tail(s))
         ELSE <<o>> \o s

RECURSIVE SortFrom(_, _, _)
SortFrom(list, i, acc) ==
    IF i > Len(list) THEN acc
    ELSE SortFrom(list, i + 1, InsertByConfirmations(list[i], acc))

\* sorted(unspent_outputs, key=lambda x: x['confirmations'], reverse=True):
\* Python's sort is stable, also with reverse=True
sorted_outputs(list) == SortFrom(list, 1, <<>>)

\* A plausible slip: the loop has no early break and takes every output.
RECURSIVE select_loop_no_break(_, _, _, _, _)
select_loop_no_break(sorted, i, selected_inputs, total_sats, target_sats) ==
    IF i > Len(sorted)
    THEN [selected_inputs |-> selected_inputs, total_sats |-> total_sats]
    ELSE select_loop_no_break(sorted, i + 1,
             Append(selected_inputs, [txid |-> sorted[i].txid, vout |-> sorted[i].vout]),
             total_sats + ToSats(sorted[i].amount), target_sats)

\* the for loop: stop when the list is exhausted or total_sats >= target_sats,
\* otherwise append the output's (txid, vout) and add its satoshi value
RECURSIVE select_loop(_, _, _, _, _)
select_loop(sorted, i, selected_inputs, total_sats, target_sats) ==
    IF i > Len(sorted) \/ total_sats >= target_sats
    THEN [selected_inputs |-> selected_inputs, total_sats |-> total_sats]
    ELSE select_loop(sorted, i + 1,
             Append(selected_inputs, [txid |-> sorted[i].txid, vout |-> sorted[i].vout]),
             total_sats + ToSats(sorted[i].amount), target_sats)

\* A plausible slip: the insufficient-funds test is missing and a partial
\* selection is returned, with a negative change.
select_inputs_partial(amount, unspent) ==
    LET target_sats == ToSats(amount)
        r == select_loop(sorted_outputs(unspent), 1, <<>>, 0, target_sats)
    IN  [target_sats |-> target_sats,
         inputs |-> r.selected_inputs, total_sats |-> r.total_sats,
         change_sats |-> r.total_sats - target_sats]

\* A plausible slip: the change computed with the operands swapped.
select_inputs_change_swapped(amount, unspent) ==
    LET target_sats == ToSats(amount)
        r == select_loop(sorted_outputs(unspent), 1, <<>>, 0, target_sats)
    IN  IF r.total_sats < target_sats
        THEN [target_sats |-> target_sats,
              inputs |-> <<>>, total_sats |-> 0, change_sats |-> 0]
        ELSE [target_sats |-> target_sats,
              inputs |-> r.selected_inputs, total_sats |-> r.total_sats,
              change_sats |-> target_sats - r.total_sats]

\* the whole method: returns (inputs, total_sats, change_sats); the local
\* target_sats is kept in the record beside the returned triple
select_inputs_for_amount(amount, unspent) ==
    LET target_sats == ToSats(amount)
        r == select_loop(sorted_outputs(unspent), 1, <<>>, 0, target_sats)
    IN  IF r.total_sats < target_sats
        THEN [target_sats |-> target_sats,
              inputs |-> <<>>, total_sats |-> 0, change_sats |-> 0]
        ELSE [target_sats |-> target_sats,
              inputs |-> r.selected_inputs, total_sats |-> r.total_sats,
              change_sats |-> r.total_sats - target_sats]

----------------------------------------------------------------------------
(* BitcoinTransactionCreator.estimate_transaction_size and                 *)
(* calculate_transaction_fee                                               *)

BASE_TX_SIZE == 10
INPUT_SIZE_NON_SEGWIT == 148
INPUT_SIZE_SEGWIT == 68
OUTPUT_SIZE == 34

\* A plausible slip: the two input sizes swapped.
estimate_transaction_size_swapped(input_count, output_count, is_segwit) ==
    LET input_size == IF is_segwit THEN INPUT_SIZE_NON_SEGWIT ELSE INPUT_SIZE_SEGWIT
    IN  BASE_TX_SIZE + (input_count * input_size) + (output_count * OUTPUT_SIZE)

estimate_transaction_size(input_count, output_count, is_segwit) ==
    LET input_size == IF is_segwit THEN INPUT_SIZE_SEGWIT ELSE INPUT_SIZE_NON_SEGWIT
    IN  BASE_TX_SIZE + (input_count * input_size) + (output_count * OUTPUT_SIZE)

calculate_transaction_fee(tx_size_bytes, sat_per_byte) == tx_size_bytes * sat_per_byte

----------------------------------------------------------------------------
(* The node, as the wrappers see it *)

\* how a call of a node method can end: a result, a JSON-RPC error reply
\* (JSONRPCException), or a failure of the transport (ConnectionError,
\* socket.timeout, ...: exceptions that are not JSONRPCException)
Faults == {"ok", "jsonrpc_error", "transport_error"}

\* self.node_client: None after construction, an AuthServiceProxy afterwards
Clients == {None, "proxy"}

\* How a wrapper ends: it returns the node's result ("value"), returns None,
\* returns an empty list ("empty"), or an exception leaves it ("raised").

(* BitcoinTransactionCreator *)

\* try: proxy = AuthServiceProxy(...); getblockchaininfo() except Exception
connect_to_node(fault) == IF fault = "ok" THEN "True" ELSE "False"

\* guarded by "if not self.node_client"; catches JSONRPCException only
create_raw_transaction(client, fault) ==
    IF client = None THEN "None"
    ELSE IF fault = "ok" THEN "value"
    ELSE IF fault = "jsonrpc_error" THEN "None"
    ELSE "raised"

\* no guard: with node_client None the attribute access raises AttributeError;
\* catches JSONRPCException only
sign_transaction(client, fault) ==
    IF client = None THEN "raised"
    ELSE IF fault = "ok" THEN "value"
    ELSE IF fault = "jsonrpc_error" THEN "None"
    ELSE "raised"

broadcast_transaction(client, fault) ==
    IF client = None THEN "raised"
    ELSE IF fault = "ok" THEN "value"
    ELSE IF fault = "jsonrpc_error" THEN "None"
    ELSE "raised"

get_unspent_outputs(client, fault) ==
    IF client = None THEN "raised"
    ELSE IF fault = "ok" THEN "value"
    ELSE IF fault = "jsonrpc_error" THEN "empty"
    ELSE "raised"

(* DigitalAssetPortfolioInspector *)

\* an output the node lists without an 'address' key
NoAddress == "<no address>"

\* A plausible slip: the ownership test of the loop is missing.
RECURSIVE balance_loop_unfiltered(_, _, _, _, _)
balance_loop_unfiltered(txs, i, cumulative_sats, unspent_items, target_address) ==
    IF i > Len(txs)
    THEN [cumulative_sats |-> cumulative_sats, unspent_items |-> unspent_items]
    ELSE LET sats_value == ToSats(txs[i].amount)
         IN  balance_loop_unfiltered(txs, i + 1, cumulative_sats + sats_value,
                 Append(unspent_items,
                        [transaction_id |-> txs[i].txid,
                         output_index |-> txs[i].vout,
                         btc_value |-> txs[i].amount,
                         sats_value |-> sats_value,
                         confirmations |-> txs[i].confirmations,
                         spendable |-> txs[i].spendable,
                         secure |-> txs[i].safe]),
                 target_address)

\* the for loop of calculate_unspent_balance: an output of the target address
\* adds its satoshi value and one record; btc_value, float(amount), denotes
\* the same amount
RECURSIVE balance_loop(_, _, _, _, _)
balance_loop(txs, i, cumulative_sats, unspent_items, target_address) ==
    IF i > Len(txs)
    THEN [cumulative_sats |-> cumulative_sats, unspent_items |-> unspent_items]
    ELSE IF txs[i].address = target_address
    THEN LET sats_value == ToSats(txs[i].amount)
         IN  balance_loop(txs, i + 1, cumulative_sats + sats_value,
                 Append(unspent_items,
                        [transaction_id |-> txs[i].txid,
                         output_index |-> txs[i].vout,
                         btc_value |-> txs[i].amount,
                         sats_value |-> sats_value,
                         confirmations |-> txs[i].confirmations,
                         spendable |-> txs[i].spendable,
                         secure |-> txs[i].safe]),
                 target_address)
    ELSE balance_loop(txs, i + 1, cumulative_sats, unspent_items, target_address)

\* returns the report, or None: without a client, on any exception of the
\* node call, and on the KeyError of an output without 'address'
calculate_unspent_balance(client, fault, unspent_transactions, target_address) ==
    IF client = None THEN [kind |-> "None"]
    ELSE IF fault # "ok" THEN [kind |-> "None"]
    ELSE IF \E i \in 1..Len(unspent_transactions) :
                unspent_transactions[i].address = NoAddress
    THEN [kind |-> "None"]
    ELSE LET r == balance_loop(unspent_transactions, 1, 0, <<>>, target_address)
         IN  [kind |-> "value",
              address |-> target_address,
              total_btc |-> FromSats(r.cumulative_sats),
              total_sats |-> r.cumulative_sats,
              unspent_count |-> Len(r.unspent_items),
              unspent_list |-> r.unspent_items]

\* the whole body is inside try/except Exception, the attribute access on a
\* missing client included
fetch_portfolio_total(client, fault) ==
    IF client = None THEN "None"
    ELSE IF fault = "ok" THEN "value"
    ELSE "None"

enumerate_addresses(client, fault) ==
    IF client = None THEN "empty"
    ELSE IF fault = "ok" THEN "value"
    ELSE "empty"

----------------------------------------------------------------------------
(* Inputs of the harnesses *)

\* the lists of unspent outputs of length n: the node reports amounts in
\* whole satoshi, and listunspent(1, 9999999) reports confirmations >= 1;
\* an output is identified by its (txid, vout), here its position in the list
UtxoChoice == (0..MaxUtxoSats) \X (1..MaxConf)

UtxoLists(n) ==
    { [i \in 1..n |-> [txid |-> i, vout |-> 0,
                       amount |-> FromSats(c[i][1]),
                       confirmations |-> c[i][2]]] : c \in [1..n -> UtxoChoice] }

AllUtxoLists == UNION { UtxoLists(n) : n \in 0..MaxUtxo }

\* target amounts: every multiple of 1/SubSat satoshi up to MaxTargetSats
TargetAmounts == 0..(MaxTargetSats * SubSat)

IdleSelect ==
    /\ target_amount_btc = 0
    /\ unspent_outputs = <<>>
    /\ selection = NotCalled

IdleSize ==
    /\ size_args = [input_count |-> 0, output_count |-> 0, is_segwit |-> TRUE, sat_per_byte |-> 0]
    /\ size_result = NotCalled

IdleInspect ==
    /\ inspect_args = [node_client |-> None, fault |-> "ok", target_address |-> "",
                       unspent_transactions |-> <<>>]
    /\ report = NotCalled

IdleRpc == rpc_log = <<>>

IdleFlow ==
    /\ pc = "idle"
    /\ exit_reason = ""
    /\ calls = <<>>
    /\ node_client = None
    /\ pricing = NotCalled
    /\ outputs = <<>>
    /\ raw_tx = "unset"
    /\ signed_tx = "unset"
    /\ tx_hash = "unset"

----------------------------------------------------------------------------
(* Specification SpecSelect: select_inputs_for_amount on every input *)

\* the documented example: outputs of 0.5 BTC (6 confirmations) and 0.3 BTC
\* (2 confirmations), target 0.4 BTC
ExampleHalfBtcSats == 5 * 10^7
ExampleThreeTenthsBtcSats == 3 * 10^7
ExampleTargetSats == 4 * 10^7
ExampleChangeSats == 1 * 10^7

ExampleOutputs ==
    << [txid |-> 1, vout |-> 0, amount |-> FromSats(ExampleHalfBtcSats), confirmations |-> 6],
       [txid |-> 2, vout |-> 0, amount |-> FromSats(ExampleThreeTenthsBtcSats), confirmations |-> 2] >>

InitSelect ==
    /\ \/ /\ target_amount_btc \in TargetAmounts
          /\ unspent_outputs \in AllUtxoLists
       \/ /\ target_amount_btc = FromSats(ExampleTargetSats)
          /\ unspent_outputs = ExampleOutputs
    /\ selection = NotCalled
    /\ IdleSize /\ IdleInspect /\ IdleRpc /\ IdleFlow

CallSelect ==
    /\ selection = NotCalled
    /\ selection' = [called |-> TRUE] @@
                     select_inputs_for_amount(target_amount_btc, unspent_outputs)
    /\ UNCHANGED <<target_amount_btc, unspent_outputs, sizeVars, inspectVars, rpc_log, flowVars>>

NextSelect == CallSelect

SpecSelect == InitSelect /\ [][NextSelect]_vars

----------------------------------------------------------------------------
(* Specification SpecSize: the size and fee estimator on every input *)

InitSize ==
    /\ size_args \in [input_count : 0..MaxCount, output_count : 0..MaxCount,
                      is_segwit : BOOLEAN, sat_per_byte : 0..MaxRate]
    /\ size_result = NotCalled
    /\ IdleSelect /\ IdleInspect /\ IdleRpc /\ IdleFlow

CallEstimate ==
    /\ size_result = NotCalled
    /\ LET estimated_size == estimate_transaction_size(size_args.input_count,
                                 size_args.output_count, size_args.is_segwit)
       IN  size_result' = [called |-> TRUE, estimated_size |-> estimated_size,
                           fee_sats |-> calculate_transaction_fee(estimated_size,
                                                                  size_args.sat_per_byte)]
    /\ UNCHANGED <<selectVars, size_args, inspectVars, rpc_log, flowVars>>

NextSize == CallEstimate

SpecSize == InitSize /\ [][NextSize]_vars

----------------------------------------------------------------------------
(* Specification SpecInspect: calculate_unspent_balance on every reply *)

Addresses == {"addrA", "addrB"}

ListedChoice == (0..MaxUtxoSats) \X (Addresses \cup {NoAddress})

\* what listunspent(0, 9999999, [address]) may return: amounts in whole
\* satoshi, confirmations >= 0
ListedOutputs(n) ==
    { [i \in 1..n |-> [txid |-> i, vout |-> 0,
                       address |-> c[i][2],
                       amount |-> FromSats(c[i][1]),
                       confirmations |-> i - 1,
                       spendable |-> TRUE,
                       safe |-> TRUE]] : c \in [1..n -> ListedChoice] }

InitInspect ==
    /\ inspect_args \in [node_client : Clients, fault : Faults,
                         target_address : {"addrA"},
                         unspent_transactions :
                             UNION { ListedOutputs(n) : n \in 0..MaxListed }]
    /\ report = NotCalled
    /\ IdleSelect /\ IdleSize /\ IdleRpc /\ IdleFlow

CallCalculate ==
    /\ report = NotCalled
    /\ report' = [called |-> TRUE] @@
                  calculate_unspent_balance(inspect_args.node_client, inspect_args.fault,
                      inspect_args.unspent_transactions, inspect_args.target_address)
    /\ UNCHANGED <<selectVars, sizeVars, inspect_args, rpc_log, flowVars>>

NextInspect == CallCalculate

SpecInspect == InitInspect /\ [][NextInspect]_vars

----------------------------------------------------------------------------
(* Specification SpecRpc: every RPC wrapper, with and without a client,    *)
(* under every way the node call can end                                   *)

InitRpc ==
    /\ rpc_log = <<>>
    /\ IdleSelect /\ IdleSize /\ IdleInspect /\ IdleFlow

\* one wrapper call: the client it had, how the node call ended, how the
\* wrapper ended
LogEntry(wrapper, client, fault, outcome) ==
    [wrapper |-> wrapper, node_client |-> client, fault |-> fault, outcome |-> outcome]

CallCreateRaw ==
    /\ Len(rpc_log) < MaxCalls
    /\ \E client \in Clients, fault \in Faults :
         rpc_log' = Append(rpc_log, LogEntry("create_raw_transaction", client, fault,
                                             create_raw_transaction(client, fault)))
    /\ UNCHANGED <<selectVars, sizeVars, inspectVars, flowVars>>

CallSign ==
    /\ Len(rpc_log) < MaxCalls
    /\ \E client \in Clients, fault \in Faults :
         rpc_log' = Append(rpc_log, LogEntry("sign_transaction", client, fault,
                                             sign_transaction(client, fault)))
    /\ UNCHANGED <<selectVars, sizeVars, inspectVars, flowVars>>

CallBroadcast ==
    /\ Len(rpc_log) < MaxCalls
    /\ \E client \in Clients, fault \in Faults :
         rpc_log' = Append(rpc_log, LogEntry("broadcast_transaction", client, fault,
                                             broadcast_transaction(client, fault)))
    /\ UNCHANGED <<selectVars, sizeVars, inspectVars, flowVars>>

CallGetUnspent ==
    /\ Len(rpc_log) < MaxCalls
    /\ \E client \in Clients, fault \in Faults :
         rpc_log' = Append(rpc_log, LogEntry("get_unspent_outputs", client, fault,
                                             get_unspent_outputs(client, fault)))
    /\ UNCHANGED <<selectVars, sizeVars, inspectVars, flowVars>>

CallCalculateBalance ==
    /\ Len(rpc_log) < MaxCalls
    /\ \E client \in Clients, fault \in Faults, txs \in ListedOutputs(1) :
         rpc_log' = Append(rpc_log, LogEntry("calculate_unspent_balance", client, fault,
                        calculate_unspent_balance(client, fault, txs, "addrA").kind))
    /\ UNCHANGED <<selectVars, sizeVars, inspectVars, flowVars>>

CallFetchTotal ==
    /\ Len(rpc_log) < MaxCalls
    /\ \E client \in Clients, fault \in Faults :
         rpc_log' = Append(rpc_log, LogEntry("fetch_portfolio_total", client, fault,
                                             fetch_portfolio_total(client, fault)))
    /\ UNCHANGED <<selectVars, sizeVars, inspectVars, flowVars>>

CallEnumerate ==
    /\ Len(rpc_log) < MaxCalls
    /\ \E client \in Clients, fault \in Faults :
         rpc_log' = Append(rpc_log, LogEntry("enumerate_addresses", client, fault,
                                             enumerate_addresses(client, fault)))
    /\ UNCHANGED <<selectVars, sizeVars, inspectVars, flowVars>>

NextRpc ==
    \/ CallCreateRaw
    \/ CallSign
    \/ CallBroadcast
    \/ CallGetUnspent
    \/ CallCalculateBalance
    \/ CallFetchTotal
    \/ CallEnumerate

SpecRpc == InitRpc /\ [][NextRpc]_vars

----------------------------------------------------------------------------
(* Specification Spec: create_and_send_transaction *)

RECIPIENT_ADDRESS == "bc1qaddresshere"
\* AMOUNT_BTC = 0.001, in satoshi
AMOUNT_SATS == 100000
FEE_RATE == 2

\* The amount is a constant of the script: every run pays 0.001 BTC.
\* Decimal(0.001) carries the binary expansion error of the float literal
\* (2 * 10^-12 satoshi); it is below one unit and int() drops it, so the
\* amount is taken as exactly 100000 satoshi.
AMOUNT_BTC == FromSats(AMOUNT_SATS)

\* Wallet outputs around the amount: half of it, exactly it, it plus the fee
\* of a one-input two-output transaction (change exactly 0 after the fee),
\* and twice it.
WalletSats == {50000, 100000, 100292, 200000}

WalletLists ==
    UNION { { [i \in 1..n |-> [txid |-> i, vout |-> 0,
                               amount |-> FromSats(c[i][1]),
                               confirmations |-> c[i][2]]] :
                  c \in [1..n -> WalletSats \X (1..MaxConf)] } : n \in 0..MaxWallet }

\* replies of listreceivedbyaddress(0, True): the wallet's addresses, of
\* which the flow reads the first
ReceivedReplies == { <<>>, <<"bc1qchange">>, <<RECIPIENT_ADDRESS>> }

Init ==
    /\ pc = "connect"
    /\ exit_reason = ""
    /\ calls = <<>>
    /\ node_client = None
    /\ target_amount_btc = AMOUNT_BTC
    /\ unspent_outputs = <<>>
    /\ selection = NotCalled
    /\ pricing = NotCalled
    /\ outputs = <<>>
    /\ raw_tx = "unset"
    /\ signed_tx = "unset"
    /\ tx_hash = "unset"
    /\ IdleSize /\ IdleInspect /\ IdleRpc

\* the flow returns (or an exception leaves it)
Return(reason) ==
    /\ pc' = "done"
    /\ exit_reason' = reason

Goto(step) ==
    /\ pc' = step
    /\ exit_reason' = exit_reason

\* connect_to_node: the proxy is stored before the node is first called
ConnectToNode ==
    /\ pc = "connect"
    /\ \E fault \in Faults :
         /\ node_client' = "proxy"
         /\ calls' = Append(calls, "getblockchaininfo")
         /\ IF connect_to_node(fault) = "True"
            THEN Goto("fetch")
            ELSE Return("connect_failed")
    /\ UNCHANGED <<selectVars, sizeVars, inspectVars, rpc_log,
                   pricing, outputs, raw_tx, signed_tx, tx_hash>>

\* unspent_outputs = tx_creator.get_unspent_outputs(); if not unspent_outputs
FetchUnspent ==
    /\ pc = "fetch"
    /\ \E fault \in Faults, listed \in WalletLists :
         LET outcome == get_unspent_outputs(node_client, fault)
         IN  /\ calls' = Append(calls, "listunspent")
             /\ IF outcome = "raised"
                THEN Return("exception") /\ UNCHANGED unspent_outputs
                ELSE IF outcome = "empty" \/ listed = <<>>
                THEN Return("no_unspent_outputs") /\ UNCHANGED unspent_outputs
                ELSE Goto("select") /\ unspent_outputs' = listed
    /\ UNCHANGED <<target_amount_btc, selection, sizeVars, inspectVars, rpc_log,
                   node_client, pricing, outputs, raw_tx, signed_tx, tx_hash>>

\* if not inputs: print("insufficient funds"); return -- the flow's test of
\* the selection it is handed
reports_insufficient_funds(inputs) == inputs = <<>>

\* inputs, total_sats, change_sats = select_inputs_for_amount(...); if not inputs
SelectInputs ==
    /\ pc = "select"
    /\ LET r == select_inputs_for_amount(target_amount_btc, unspent_outputs)
       IN  /\ selection' = [called |-> TRUE] @@ r
           /\ IF reports_insufficient_funds(r.inputs)
              THEN Return("insufficient_funds")
              ELSE Goto("price")
    /\ UNCHANGED <<target_amount_btc, unspent_outputs, sizeVars, inspectVars, rpc_log,
                   calls, node_client, pricing, outputs, raw_tx, signed_tx, tx_hash>>

\* size, fee, the test against amount + fee, the change after the fee and
\* the payment output
PriceTransaction ==
    /\ pc = "price"
    /\ LET output_count == IF selection.change_sats > 0 THEN 2 ELSE 1
           estimated_size ==
               estimate_transaction_size(Len(selection.inputs), output_count, TRUE)
           fee_sats == calculate_transaction_fee(estimated_size, FEE_RATE)
           amount_sats == ToSats(target_amount_btc)
           change_sats == selection.total_sats - amount_sats - fee_sats
       IN  IF selection.total_sats < amount_sats + fee_sats
           THEN /\ Return("insufficient_funds_for_fee")
                /\ UNCHANGED <<pricing, outputs>>
           ELSE /\ pricing' = [called |-> TRUE,
                               output_count |-> output_count,
                               estimated_size |-> estimated_size,
                               fee_sats |-> fee_sats,
                               amount_sats |-> amount_sats,
                               change_sats |-> change_sats]
                /\ outputs' = (RECIPIENT_ADDRESS :> target_amount_btc)
                /\ IF change_sats > 0 THEN Goto("change_address") ELSE Goto("create")
    /\ UNCHANGED <<selectVars, sizeVars, inspectVars, rpc_log,
                   calls, node_client, raw_tx, signed_tx, tx_hash>>

\* if addresses: outputs[addresses[0]['address']] = Decimal(change_sats) / 1e8;
\* an assignment to a key the dict already holds replaces its value
outputs_with_change(outs, addresses, change_sats) ==
    IF addresses # <<>>
    THEN [a \in DOMAIN outs \cup {addresses[1]} |->
              IF a = addresses[1] THEN FromSats(change_sats) ELSE outs[a]]
    ELSE outs

\* if change_sats > 0: the first wallet address receives the change; any
\* exception of the node call ends the flow (bare except)
ChangeAddress ==
    /\ pc = "change_address"
    /\ \E fault \in Faults, addresses \in ReceivedReplies :
         /\ calls' = Append(calls, "listreceivedbyaddress")
         /\ IF fault # "ok"
            THEN Return("no_change_address") /\ UNCHANGED outputs
            ELSE /\ outputs' = outputs_with_change(outputs, addresses, pricing.change_sats)
                 /\ Goto("create")
    /\ UNCHANGED <<selectVars, sizeVars, inspectVars, rpc_log,
                   node_client, pricing, raw_tx, signed_tx, tx_hash>>

\* raw_tx = create_raw_transaction(inputs, outputs); if not raw_tx: return
CreateRawTransaction ==
    /\ pc = "create"
    /\ \E fault \in Faults :
         LET outcome == create_raw_transaction(node_client, fault)
         IN  /\ calls' = IF node_client = None THEN calls
                         ELSE Append(calls, "createrawtransaction")
             /\ IF outcome = "raised"
                THEN Return("exception") /\ UNCHANGED raw_tx
                ELSE IF outcome = "None"
                THEN Return("create_failed") /\ raw_tx' = "None"
                ELSE Goto("sign") /\ raw_tx' = "hex"
    /\ UNCHANGED <<selectVars, sizeVars, inspectVars, rpc_log,
                   node_client, pricing, outputs, signed_tx, tx_hash>>

\* A plausible slip: the complete flag of the signing result is not tested.
signing_failed_ignoring_complete(outcome, complete) == outcome = "None"

\* if not signed_tx or not signed_tx.get('complete')
signing_failed(outcome, complete) == outcome = "None" \/ ~complete

\* signed_tx = sign_transaction(raw_tx), then the test of the result
SignTransaction ==
    /\ pc = "sign"
    /\ \E fault \in Faults, complete \in BOOLEAN :
         LET outcome == sign_transaction(node_client, fault)
         IN  /\ calls' = Append(calls, "signrawtransactionwithwallet")
             /\ IF outcome = "raised"
                THEN Return("exception") /\ UNCHANGED signed_tx
                ELSE /\ signed_tx' = IF outcome = "None" THEN "None"
                                     ELSE IF complete THEN "complete" ELSE "incomplete"
                     /\ IF signing_failed(outcome, complete)
                        THEN Return("sign_failed")
                        ELSE Goto("broadcast")
    /\ UNCHANGED <<selectVars, sizeVars, inspectVars, rpc_log,
                   node_client, pricing, outputs, raw_tx, tx_hash>>

\* tx_hash = broadcast_transaction(signed_tx['hex']) and the final report
BroadcastTransaction ==
    /\ pc = "broadcast"
    /\ \E fault \in Faults :
         LET outcome == broadcast_transaction(node_client, fault)
         IN  /\ calls' = Append(calls, "sendrawtransaction")
             /\ IF outcome = "raised"
                THEN Return("exception") /\ UNCHANGED tx_hash
                ELSE IF outcome = "None"
                THEN Return("send_failed") /\ tx_hash' = "None"
                ELSE Return("sent") /\ tx_hash' = "hash"
    /\ UNCHANGED <<selectVars, sizeVars, inspectVars, rpc_log,
                   node_client, pricing, outputs, raw_tx, signed_tx>>

Next ==
    \/ ConnectToNode
    \/ FetchUnspent
    \/ SelectInputs
    \/ PriceTransaction
    \/ ChangeAddress
    \/ CreateRawTransaction
    \/ SignTransaction
    \/ BroadcastTransaction

Spec == Init /\ [][Next]_vars

----------------------------------------------------------------------------
(* Properties of select_inputs_for_amount (SpecSelect) *)

\* satoshi value of the first k outputs of a list, each converted as the
\* method converts it
RECURSIVE PrefixSats(_, _)
PrefixSats(list, k) ==
    IF k = 0 THEN 0 ELSE PrefixSats(list, k - 1) + list[k].amount \div SubSat

SumSats(list) == PrefixSats(list, Len(list))

\* the satoshi target the method works with
TargetSats == selection.target_sats

\* S is list sorted by confirmations descending, ties in list order; an
\* output's txid is its position in list
IsStableDescending(S, list) ==
    /\ Len(S) = Len(list)
    /\ { S[i].txid : i \in 1..Len(S) } = 1..Len(list)
    /\ \A i \in 1..Len(S) : S[i] = list[S[i].txid]
    /\ \A i, j \in 1..Len(S) :
          i < j => \/ S[i].confirmations > S[j].confirmations
                   \/ /\ S[i].confirmations = S[j].confirmations
                      /\ S[i].txid < S[j].txid

\* C1: when the target's satoshi value is <= the satoshi sum of all listed
\* outputs, the method returns a total >= the target and
\* change = total - target >= 0.
C1_SufficientFundsCovered ==
    (selection.called /\ TargetSats <= SumSats(unspent_outputs)) =>
        /\ selection.total_sats >= TargetSats
        /\ selection.change_sats = selection.total_sats - TargetSats
        /\ selection.change_sats >= 0

C1_Witness ==
    /\ selection.called
    /\ TargetSats > 0
    /\ TargetSats <= SumSats(unspent_outputs)
    /\ Len(selection.inputs) >= 2
    /\ selection.change_sats > 0

\* C2: when the target's satoshi value exceeds the satoshi sum of all listed
\* outputs, the method returns no inputs, total 0 and change 0, never a
\* partial selection.
C2_InsufficientFundsEmpty ==
    (selection.called /\ TargetSats > SumSats(unspent_outputs)) =>
        /\ selection.inputs = <<>>
        /\ selection.total_sats = 0
        /\ selection.change_sats = 0

C2_Witness ==
    /\ selection.called
    /\ TargetSats > SumSats(unspent_outputs)
    /\ Len(unspent_outputs) >= 2
    /\ SumSats(unspent_outputs) > 0
    /\ selection.inputs = <<>>

\* C8: on success the returned inputs are the shortest prefix, in order, of
\* the outputs sorted by confirmations descending (ties in list order) whose
\* cumulative satoshi value reaches the target; in the documented example
\* only the 0.5 BTC output is selected and the change is 10,000,000 satoshi.
C8_ShortestSortedPrefix ==
    (selection.called /\ TargetSats <= SumSats(unspent_outputs)) =>
        LET S == sorted_outputs(unspent_outputs)
        IN  /\ IsStableDescending(S, unspent_outputs)
            /\ \E k \in 0..Len(S) :
                 /\ selection.inputs =
                        [i \in 1..k |-> [txid |-> S[i].txid, vout |-> S[i].vout]]
                 /\ selection.total_sats = PrefixSats(S, k)
                 /\ PrefixSats(S, k) >= TargetSats
                 /\ \A j \in 0..(k - 1) : PrefixSats(S, j) < TargetSats
            /\ (unspent_outputs = ExampleOutputs) =>
                 /\ selection.inputs = << [txid |-> 1, vout |-> 0] >>
                 /\ selection.total_sats = ExampleHalfBtcSats
                 /\ selection.change_sats = ExampleChangeSats

\* a selection that reorders the list, breaks a tie and leaves an output out
C8_Witness ==
    /\ selection.called
    /\ Len(unspent_outputs) = 3
    /\ unspent_outputs[1].confirmations < unspent_outputs[2].confirmations
    /\ unspent_outputs[2].confirmations = unspent_outputs[3].confirmations
    /\ selection.inputs = << [txid |-> 2, vout |-> 0], [txid |-> 3, vout |-> 0] >>

\* C6 (as claimed): with a zero target the method returns an empty selection
\* with total 0 and change 0, and the test the consuming flow applies to the
\* returned inputs takes that outcome as a satisfied selection, not as
\* insufficient funds.  (The flow itself only ever pays AMOUNT_BTC; the test
\* of its line 231 is applied here to what the method returns for target 0.)
C6_ZeroTargetSatisfied ==
    (selection.called /\ TargetSats = 0) =>
        /\ selection.inputs = <<>>
        /\ selection.total_sats = 0
        /\ selection.change_sats = 0
        /\ ~reports_insufficient_funds(selection.inputs)

\* C9 (as claimed): the satoshi target is the amount scaled by 10^8 and rounded
\* to the nearest integer, also when the scaled amount has a fractional part.
C9_TargetIsRounded ==
    selection.called =>
        LET diff == TargetSats * SubSat - target_amount_btc
        IN  2 * (IF diff >= 0 THEN diff ELSE -diff) <= SubSat

----------------------------------------------------------------------------
(* Properties of the size and fee estimator (SpecSize) *)

\* C5: the size is exactly 10 + inputs * (68 if segwit else 148) + outputs * 34
\* and the fee is exactly size * rate.
C5_SizeAndFeeFormula ==
    size_result.called =>
        /\ size_result.estimated_size =
               10 + size_args.input_count * (IF size_args.is_segwit THEN 68 ELSE 148)
                  + size_args.output_count * 34
        /\ size_result.fee_sats = size_result.estimated_size * size_args.sat_per_byte

C5_Witness ==
    /\ size_result.called
    /\ ~size_args.is_segwit
    /\ size_args.input_count = 2
    /\ size_args.output_count = 1
    /\ size_args.sat_per_byte = 3
    /\ size_result.fee_sats = 1020

----------------------------------------------------------------------------
(* Properties of calculate_unspent_balance (SpecInspect) *)

IsOwn(tx) == tx.address = inspect_args.target_address

\* C7: in a report that is built, total_sats is the satoshi sum of exactly the
\* outputs of the queried address, unspent_list holds exactly those outputs
\* in the node's order, unspent_count is its length and total_btc is
\* total_sats / 10^8.
C7_ReportAggregatesOwnOutputs ==
    (report.called /\ report.kind = "value") =>
        LET own == SelectSeq(inspect_args.unspent_transactions, IsOwn)
        IN  /\ report.address = inspect_args.target_address
            /\ report.total_sats = SumSats(own)
            /\ Len(report.unspent_list) = Len(own)
            /\ \A i \in 1..Len(own) :
                 /\ report.unspent_list[i].transaction_id = own[i].txid
                 /\ report.unspent_list[i].output_index = own[i].vout
                 /\ report.unspent_list[i].sats_value * SubSat = own[i].amount
            /\ report.unspent_count = Len(report.unspent_list)
            /\ report.total_btc = report.total_sats * SubSat

C7_Witness ==
    /\ report.called
    /\ report.kind = "value"
    /\ Len(inspect_args.unspent_transactions) = 3
    /\ inspect_args.unspent_transactions[2].address = "addrB"
    /\ report.unspent_count = 2
    /\ report.total_sats = 3

----------------------------------------------------------------------------
(* Properties of the RPC wrappers (SpecRpc) *)

\* C4 (as claimed): every wrapper turns every failure of its node call (an
\* error reply, a transport error, no client) into a None or empty return
\* value; no failure leaves a wrapper as an exception.
C4_NoFailurePropagates ==
    \A i \in 1..Len(rpc_log) :
        /\ rpc_log[i].outcome # "raised"
        /\ (rpc_log[i].fault # "ok" \/ rpc_log[i].node_client = None)
               => rpc_log[i].outcome \in {"None", "empty"}

----------------------------------------------------------------------------
(* Properties of create_and_send_transaction (Spec) *)

IsBuilderCall(method) ==
    method \in {"createrawtransaction", "signrawtransactionwithwallet",
                "sendrawtransaction"}

Called(method) == \E i \in 1..Len(calls) : calls[i] = method

\* C3: the node calls of the builder happen in the order createrawtransaction,
\* signrawtransactionwithwallet, sendrawtransaction, each at most once; signing
\* is requested only after creation succeeded, broadcasting only after signing
\* succeeded with complete = true, and after a failed step nothing follows.
C3_StrictSequence ==
    LET builder == SelectSeq(calls, IsBuilderCall)
        order == << "createrawtransaction", "signrawtransactionwithwallet",
                    "sendrawtransaction" >>
    IN  /\ Len(builder) <= 3
        /\ builder = SubSeq(order, 1, Len(builder))
        /\ Called("signrawtransactionwithwallet") => raw_tx = "hex"
        /\ Called("sendrawtransaction") => (raw_tx = "hex" /\ signed_tx = "complete")
        /\ raw_tx = "None" => Len(builder) = 1
        /\ signed_tx \in {"None", "incomplete"} => Len(builder) = 2
        /\ exit_reason # "" => pc = "done"

\* the flow stopped after a signing result with complete = false
C3_Witness ==
    /\ pc = "done"
    /\ exit_reason = "sign_failed"
    /\ signed_tx = "incomplete"
    /\ SelectSeq(calls, IsBuilderCall) =
           << "createrawtransaction", "signrawtransactionwithwallet" >>

RECURSIVE SumOver(_, _)
SumOver(f, S) ==
    IF S = {} THEN 0
    ELSE LET a == CHOOSE x \in S : TRUE
         IN  f[a] + SumOver(f, S \ {a})

\* C10 (as claimed): what is handed to createrawtransaction conserves value:
\* inputs = payment + change + estimated fee, and a change > 0 after the fee
\* is an output of exactly that value.
C10_ValueConserved ==
    Called("createrawtransaction") =>
        /\ FromSats(selection.total_sats) =
               SumOver(outputs, DOMAIN outputs) + FromSats(pricing.fee_sats)
        /\ pricing.change_sats > 0 =>
               \E a \in DOMAIN outputs \ {RECIPIENT_ADDRESS} :
                   outputs[a] = FromSats(pricing.change_sats)

====
